---- MODULE Spec2Model ----
(***************************************************************************)
(* MQTT 5 properties codec (core_mqtt5_properties.c / .h): the Variable    *)
(* Byte Integer primitive, the fixed-capacity property collection, the     *)
(* size computation, the serializer and the deserializer.                  *)
(*                                                                         *)
(* Bytes are the integers 0..255 and uint16_t values the integers          *)
(* 0..65535.  A uint32_t is a record of its two 16-bit halves (hi, lo),    *)
(* with the arithmetic of the code done modulo 2^32 on the halves.  A      *)
(* pointer is a pair (memory region, offset); a region is the bytes of the *)
(* object it names plus the bytes that happen to lie behind it, which a    *)
(* read past the end of the object may return.                             *)
(***************************************************************************)
EXTENDS Integers, Sequences, FiniteSets, TLC

VARIABLES
    pProperties,  \* the MQTT5Properties_t collection the API calls work on
    op,           \* the API function that ran last
    status,       \* what it returned
    args,         \* the arguments of the call (the inputs a codec run draws)
    out           \* what the call wrote to its output parameters, and ghosts

vars == <<pProperties, op, status, args, out>>

----------------------------------------------------------------------------
(* Bounds of the model *)

MaxCapacity == 2      \* capacities 0..MaxCapacity are passed to InitProperties
MaxCount == 2         \* sender collections of the round trip hold <= MaxCount
MaxVbiBuf == 5        \* raw VBI buffers hold <= MaxVbiBuf bytes
MaxBufLen == 4        \* exhaustive raw property blocks hold <= MaxBufLen bytes
MaxRecords == 2       \* composed property blocks hold <= MaxRecords records
LongLen == 126        \* length of the long string (makes a 2-byte prefix)

----------------------------------------------------------------------------
(* MQTTStatus_t values used by the codec, and the outcome of a faulting    *)
(* out-of-bounds read.                                                     *)

MQTTSuccess == "MQTTSuccess"
MQTTBadParameter == "MQTTBadParameter"
MQTTNoMemory == "MQTTNoMemory"
Trap == "Trap"

(* MQTT5PropertyType_t *)
MQTT5_PROPERTY_PAYLOAD_FORMAT_INDICATOR == 1
MQTT5_PROPERTY_MESSAGE_EXPIRY_INTERVAL == 2
MQTT5_PROPERTY_CONTENT_TYPE == 3
MQTT5_PROPERTY_RESPONSE_TOPIC == 8
MQTT5_PROPERTY_CORRELATION_DATA == 9
MQTT5_PROPERTY_SUBSCRIPTION_IDENTIFIER == 11
MQTT5_PROPERTY_SESSION_EXPIRY_INTERVAL == 17
MQTT5_PROPERTY_ASSIGNED_CLIENT_IDENTIFIER == 18
MQTT5_PROPERTY_SERVER_KEEP_ALIVE == 19
MQTT5_PROPERTY_AUTHENTICATION_METHOD == 21
MQTT5_PROPERTY_AUTHENTICATION_DATA == 22
MQTT5_PROPERTY_REQUEST_PROBLEM_INFORMATION == 23
MQTT5_PROPERTY_WILL_DELAY_INTERVAL == 24
MQTT5_PROPERTY_REQUEST_RESPONSE_INFORMATION == 25
MQTT5_PROPERTY_RESPONSE_INFORMATION == 26
MQTT5_PROPERTY_SERVER_REFERENCE == 28
MQTT5_PROPERTY_REASON_STRING == 31
MQTT5_PROPERTY_RECEIVE_MAXIMUM == 33
MQTT5_PROPERTY_TOPIC_ALIAS_MAXIMUM == 34
MQTT5_PROPERTY_TOPIC_ALIAS == 35
MQTT5_PROPERTY_MAXIMUM_QOS == 36
MQTT5_PROPERTY_RETAIN_AVAILABLE == 37
MQTT5_PROPERTY_USER_PROPERTY == 38
MQTT5_PROPERTY_MAXIMUM_PACKET_SIZE == 39
MQTT5_PROPERTY_WILDCARD_SUBSCRIPTION_AVAILABLE == 40
MQTT5_PROPERTY_SUBSCRIPTION_IDENTIFIER_AVAILABLE == 41
MQTT5_PROPERTY_SHARED_SUBSCRIPTION_AVAILABLE == 42

(* The case-label groups of the three switch statements (size, serialize,  *)
(* deserialize); the three switches list the same labels in each group.    *)
ByteTypes ==
    { MQTT5_PROPERTY_PAYLOAD_FORMAT_INDICATOR,
      MQTT5_PROPERTY_REQUEST_PROBLEM_INFORMATION,
      MQTT5_PROPERTY_REQUEST_RESPONSE_INFORMATION,
      MQTT5_PROPERTY_MAXIMUM_QOS,
      MQTT5_PROPERTY_RETAIN_AVAILABLE,
      MQTT5_PROPERTY_WILDCARD_SUBSCRIPTION_AVAILABLE,
      MQTT5_PROPERTY_SUBSCRIPTION_IDENTIFIER_AVAILABLE,
      MQTT5_PROPERTY_SHARED_SUBSCRIPTION_AVAILABLE }

TwoByteTypes ==
    { MQTT5_PROPERTY_SERVER_KEEP_ALIVE,
      MQTT5_PROPERTY_RECEIVE_MAXIMUM,
      MQTT5_PROPERTY_TOPIC_ALIAS_MAXIMUM,
      MQTT5_PROPERTY_TOPIC_ALIAS }

FourByteTypes ==
    { MQTT5_PROPERTY_MESSAGE_EXPIRY_INTERVAL,
      MQTT5_PROPERTY_SESSION_EXPIRY_INTERVAL,
      MQTT5_PROPERTY_WILL_DELAY_INTERVAL,
      MQTT5_PROPERTY_MAXIMUM_PACKET_SIZE }

Utf8Types ==
    { MQTT5_PROPERTY_CONTENT_TYPE,
      MQTT5_PROPERTY_RESPONSE_TOPIC,
      MQTT5_PROPERTY_ASSIGNED_CLIENT_IDENTIFIER,
      MQTT5_PROPERTY_AUTHENTICATION_METHOD,
      MQTT5_PROPERTY_RESPONSE_INFORMATION,
      MQTT5_PROPERTY_SERVER_REFERENCE,
      MQTT5_PROPERTY_REASON_STRING }

BinaryTypes ==
    { MQTT5_PROPERTY_CORRELATION_DATA,
      MQTT5_PROPERTY_AUTHENTICATION_DATA }

KnownTypes ==
    ByteTypes \cup TwoByteTypes \cup FourByteTypes \cup Utf8Types
        \cup BinaryTypes
        \cup { MQTT5_PROPERTY_USER_PROPERTY,
               MQTT5_PROPERTY_SUBSCRIPTION_IDENTIFIER }

----------------------------------------------------------------------------
(* Memory: regions and pointers *)

\* A region: the object's bytes, and the bytes behind it (repeating).
Region(data, beyond) == [data |-> data, beyond |-> beyond]

\* The byte at 0-based index i of region m; i >= Len(m.data) is past the end.
MemAt(m, i) ==
    IF i < Len(m.data)
    THEN m.data[i + 1]
    ELSE m.beyond[((i - Len(m.data)) % Len(m.beyond)) + 1]

\* &m[off]
Ptr(m, off) == [mem |-> m, off |-> off]

\* The len bytes p points at.
Content(p, len) == [k \in 1..len |-> MemAt(p.mem, p.off + k - 1)]

\* A pointer to caller memory holding exactly these bytes.
Str(bytes) == Ptr(Region(bytes, <<0>>), 0)

Max(S) == CHOOSE x \in S : \A y \in S : y <= x

\* What the memory behind a buffer may hold
Beyonds == { <<0>>, <<1, 128>> }

----------------------------------------------------------------------------
(* MQTT5Property_t values: the union member the type's case group uses *)

ByteProp(t, b) == [type |-> t, value |-> [byte |-> b]]
TwoByteProp(t, n) == [type |-> t, value |-> [twoByteInteger |-> n]]
FourByteProp(t, n) == [type |-> t, value |-> [fourByteInteger |-> n]]
Utf8Prop(t, p, n) ==
    [type |-> t, value |-> [utf8String |-> [pString |-> p, length |-> n]]]
BinaryProp(t, p, n) ==
    [type |-> t, value |-> [binaryData |-> [pData |-> p, length |-> n]]]
UserProp(k, kn, v, vn) ==
    [type |-> MQTT5_PROPERTY_USER_PROPERTY,
     value |-> [userProperty |->
                  [pKey |-> k, keyLength |-> kn,
                   pValue |-> v, valueLength |-> vn]]]

\* A slot of the caller's array that nothing was stored in yet.
Unset == [type |-> -1, value |-> [byte |-> 0]]

----------------------------------------------------------------------------
(* MQTT5_InitProperties, MQTT5_AddProperty, MQTT5_GetProperty *)

\* The collection after a successful MQTT5_InitProperties: overrun is a
\* ghost, set when an entry is written at an index >= capacity.
EmptyProperties(capacity) ==
    [pProperties |-> [i \in 0..(capacity - 1) |-> Unset],
     count |-> 0,
     capacity |-> capacity,
     overrun |-> FALSE]

MQTT5_InitProperties(P, capacity) ==
    IF capacity = 0
    THEN [status |-> MQTTBadParameter, P |-> P]
    ELSE [status |-> MQTTSuccess, P |-> EmptyProperties(capacity)]

StoreProperty_AtZero(P, pProperty) ==
    [P EXCEPT
        !.pProperties = [P.pProperties EXCEPT ![0] = pProperty],
        !.overrun = P.overrun \/ P.count >= P.capacity,
        !.count = P.count + 1]

\* pProperties->pProperties[ count ] = *pProperty; count++
StoreProperty(P, pProperty) ==
    [P EXCEPT
        !.pProperties =
            IF P.count \in DOMAIN P.pProperties
            THEN [P.pProperties EXCEPT ![P.count] = pProperty]
            ELSE P.pProperties,
        !.overrun = P.overrun \/ P.count >= P.capacity,
        !.count = P.count + 1]

IsFull_OffByOne(P) == P.count > P.capacity

\* pProperties->count >= pProperties->capacity
IsFull(P) == P.count >= P.capacity

AddProperty_NoCapacityCheck(P, pProperty) ==
    [status |-> MQTTSuccess, P |-> StoreProperty(P, pProperty)]

MQTT5_AddProperty(P, pProperty) ==
    IF IsFull(P)
    THEN [status |-> MQTTNoMemory, P |-> P]
    ELSE [status |-> MQTTSuccess, P |-> StoreProperty(P, pProperty)]

RECURSIVE GetPropertyLoop_NoBreak(_, _, _)
GetPropertyLoop_NoBreak(P, type, i) ==
    IF i < P.count
    THEN LET later == GetPropertyLoop_NoBreak(P, type, i + 1)
         IN  IF later.status = MQTTSuccess
             THEN later
             ELSE IF P.pProperties[i].type = type
                  THEN [status |-> MQTTSuccess, pProperty |-> P.pProperties[i]]
                  ELSE later
    ELSE [status |-> MQTTBadParameter, pProperty |-> Unset]

\* for( i = 0U; i < count; i++ ) with the break at the first match
RECURSIVE GetPropertyLoop(_, _, _)
GetPropertyLoop(P, type, i) ==
    IF i < P.count
    THEN IF P.pProperties[i].type = type
         THEN [status |-> MQTTSuccess, pProperty |-> P.pProperties[i]]
         ELSE GetPropertyLoop(P, type, i + 1)
    ELSE [status |-> MQTTBadParameter, pProperty |-> Unset]

MQTT5_GetProperty(P, type) == GetPropertyLoop(P, type, 0)

----------------------------------------------------------------------------
(* MQTT5_GetPropertiesSize *)

PropertyValueSize(pProp) ==
    CASE pProp.type \in ByteTypes -> 1
      [] pProp.type \in TwoByteTypes -> 2
      [] pProp.type \in FourByteTypes -> 4
      [] pProp.type \in Utf8Types -> 2 + pProp.value.utf8String.length
      [] pProp.type \in BinaryTypes -> 2 + pProp.value.binaryData.length
      [] pProp.type = MQTT5_PROPERTY_USER_PROPERTY ->
            2 + pProp.value.userProperty.keyLength
              + 2 + pProp.value.userProperty.valueLength
      [] pProp.type = MQTT5_PROPERTY_SUBSCRIPTION_IDENTIFIER -> 4
      [] OTHER -> 0

RECURSIVE GetPropertiesSizeLoop(_, _, _)
GetPropertiesSizeLoop(P, i, totalSize) ==
    IF i < P.count
    THEN GetPropertiesSizeLoop(P, i + 1,
             totalSize + 1 + PropertyValueSize(P.pProperties[i]))
    ELSE totalSize

MQTT5_GetPropertiesSize(P) == GetPropertiesSizeLoop(P, 0, 0)

----------------------------------------------------------------------------
(* uint32_t arithmetic on 16-bit halves *)

Half == 256 * 256

\* The uint32_t holding n, for 0 <= n < 2^31.
U32(n) == [hi |-> n \div Half, lo |-> n % Half]

\* The number a uint32_t below 2^31 holds.
U32Value(v) == v.hi * Half + v.lo

\* value % 128U
U32Mod128(v) == v.lo % 128

\* value / 128U
U32Div128(v) == [hi |-> v.hi \div 128, lo |-> (v.lo \div 128) + (v.hi % 128) * 512]

\* a + b in uint32_t
U32Add(a, b) ==
    [hi |-> (a.hi + b.hi + ((a.lo + b.lo) \div Half)) % Half,
     lo |-> (a.lo + b.lo) % Half]

\* k * v in uint32_t, for a byte k
U32Times(k, v) ==
    [hi |-> (k * v.hi + ((k * v.lo) \div Half)) % Half,
     lo |-> (k * v.lo) % Half]

U32Leq(a, b) == (a.hi < b.hi) \/ (a.hi = b.hi /\ a.lo <= b.lo)

\* 268435455, the largest value four VBI bytes hold
VbiMax == [hi |-> 4095, lo |-> 65535]

\* The uint32_t made of four bytes, most significant first.
U32FromBytes(b0, b1, b2, b3) == [hi |-> b0 * 256 + b1, lo |-> b2 * 256 + b3]

----------------------------------------------------------------------------
(* encodeVariableByteInteger, MQTT5_DecodeVariableByteInteger *)

RECURSIVE EncodeLoop(_, _)
EncodeLoop(value, written) ==
    LET rest == U32Div128(value)
        encodedByte ==
            IF rest # U32(0) THEN U32Mod128(value) + 128 ELSE U32Mod128(value)
    IN  IF rest # U32(0)
        THEN EncodeLoop(rest, Append(written, encodedByte))
        ELSE Append(written, encodedByte)

\* The bytes written to pBuffer; bytesWritten is their number.
encodeVariableByteInteger(value) == EncodeLoop(value, <<>>)

VbiTooLong_AtFour(bytesRead) == bytesRead >= 4

VbiTooLong_AfterFive(bytesRead) == bytesRead > 5

\* if( bytesRead > 4U ) return 0U
VbiTooLong(bytesRead) == bytesRead > 4

\* The do-while loop of the decoder: pBuffer is a pointer, touched counts
\* the bytes of pBuffer the loop has read (a ghost).
RECURSIVE DecodeLoop(_, _, _, _, _)
DecodeLoop(pBuffer, bufferSize, bytesRead, multiplier, value) ==
    IF bytesRead >= bufferSize
    THEN [bytesRead |-> 0, pValue |-> value, touched |-> bytesRead]
    ELSE LET encodedByte == MemAt(pBuffer.mem, pBuffer.off + bytesRead)
             v == U32Add(value, U32Times(encodedByte % 128, multiplier))
             m == U32Times(128, multiplier)
             n == bytesRead + 1
         IN  IF VbiTooLong(n)
             THEN [bytesRead |-> 0, pValue |-> v, touched |-> n]
             ELSE IF encodedByte >= 128
                  THEN DecodeLoop(pBuffer, bufferSize, n, m, v)
                  ELSE [bytesRead |-> n, pValue |-> v, touched |-> n]

MQTT5_DecodeVariableByteInteger(pBuffer, bufferSize) ==
    DecodeLoop(pBuffer, bufferSize, 0, U32(1), U32(0))

----------------------------------------------------------------------------
(* MQTT5_SerializeProperties *)

BigEndian16_Swapped(n) == << n % 256, (n \div 256) % 256 >>

\* ( uint8_t ) ( n >> 8U ), ( uint8_t ) ( n & 0xFFU ) of a uint16_t
BigEndian16(n) == << (n \div 256) % 256, n % 256 >>

BigEndian32_LowFirst(v) ==
    << v.lo % 256, (v.lo \div 256) % 256, v.hi % 256, (v.hi \div 256) % 256 >>

\* The four bytes of a uint32_t, >> 24U first
BigEndian32(v) ==
    << (v.hi \div 256) % 256, v.hi % 256, (v.lo \div 256) % 256, v.lo % 256 >>

\* The bytes one case of the serializer's switch writes after the identifier
SerializeValue(pProp) ==
    CASE pProp.type \in ByteTypes -> << pProp.value.byte >>
      [] pProp.type \in TwoByteTypes -> BigEndian16(pProp.value.twoByteInteger)
      [] pProp.type \in FourByteTypes -> BigEndian32(pProp.value.fourByteInteger)
      [] pProp.type \in Utf8Types ->
            BigEndian16(pProp.value.utf8String.length)
              \o Content(pProp.value.utf8String.pString,
                         pProp.value.utf8String.length)
      [] pProp.type \in BinaryTypes ->
            BigEndian16(pProp.value.binaryData.length)
              \o Content(pProp.value.binaryData.pData,
                         pProp.value.binaryData.length)
      [] pProp.type = MQTT5_PROPERTY_USER_PROPERTY ->
            BigEndian16(pProp.value.userProperty.keyLength)
              \o Content(pProp.value.userProperty.pKey,
                         pProp.value.userProperty.keyLength)
              \o BigEndian16(pProp.value.userProperty.valueLength)
              \o Content(pProp.value.userProperty.pValue,
                         pProp.value.userProperty.valueLength)
      [] pProp.type = MQTT5_PROPERTY_SUBSCRIPTION_IDENTIFIER ->
            encodeVariableByteInteger(pProp.value.fourByteInteger)
      [] OTHER -> << >>

\* The for loop: written is pBuffer[0..index-1]
RECURSIVE SerializeLoop(_, _, _, _)
SerializeLoop(P, i, st, written) ==
    IF (i < P.count) /\ (st = MQTTSuccess)
    THEN LET pProp == P.pProperties[i]
         IN  SerializeLoop(P, i + 1,
                 IF pProp.type \in KnownTypes THEN st ELSE MQTTBadParameter,
                 Append(written, pProp.type % 256) \o SerializeValue(pProp))
    ELSE [status |-> st, written |-> written]

MQTT5_SerializeProperties(P) ==
    LET propertiesLength == MQTT5_GetPropertiesSize(P)
        prefix == encodeVariableByteInteger(U32(propertiesLength))
        r == SerializeLoop(P, 0, MQTTSuccess, prefix)
    IN  [status |-> r.status,
         pBuffer |-> r.written,
         pSize |-> Len(r.written),
         propertiesLength |-> propertiesLength,
         vbiLength |-> Len(prefix)]

----------------------------------------------------------------------------
(* MQTT5_DeserializeProperties *)

\* ( ( uint16_t ) pBuffer[ k ] << 8U ) | ( uint16_t ) pBuffer[ k + 1U ]
Read16(mem, k) == MemAt(mem, k) * 256 + MemAt(mem, k + 1)

UnknownIdentifier_Skip(i, vbiLength) ==
    [ok |-> TRUE, unknown |-> TRUE,
     property |-> Unset,
     index |-> i, vbiLength |-> vbiLength,
     reads |-> {}, views |-> {}]

\* default: status = MQTTBadParameter
UnknownIdentifier(i, vbiLength) ==
    [ok |-> FALSE, unknown |-> TRUE,
     property |-> Unset,
     index |-> i, vbiLength |-> vbiLength,
     reads |-> {}, views |-> {}]

\* One case of the deserializer's switch, for the identifier `type` read at
\* index i - 1: whether status stays MQTTSuccess, the property read, the
\* index and vbiLength afterwards, and (ghosts) the buffer indices read and
\* the borrowed views taken.
DeserializeValue(mem, size, type, i, vbiLength) ==
    CASE type \in ByteTypes ->
            [ok |-> TRUE, unknown |-> FALSE,
             property |-> ByteProp(type, MemAt(mem, i)),
             index |-> i + 1, vbiLength |-> vbiLength,
             reads |-> {i}, views |-> {}]
      [] type \in TwoByteTypes ->
            [ok |-> TRUE, unknown |-> FALSE,
             property |-> TwoByteProp(type, Read16(mem, i)),
             index |-> i + 2, vbiLength |-> vbiLength,
             reads |-> {i, i + 1}, views |-> {}]
      [] type \in FourByteTypes ->
            [ok |-> TRUE, unknown |-> FALSE,
             property |->
                FourByteProp(type,
                    U32FromBytes(MemAt(mem, i), MemAt(mem, i + 1),
                                 MemAt(mem, i + 2), MemAt(mem, i + 3))),
             index |-> i + 4, vbiLength |-> vbiLength,
             reads |-> {i, i + 1, i + 2, i + 3}, views |-> {}]
      [] type \in Utf8Types ->
            LET length == Read16(mem, i)
            IN  [ok |-> TRUE, unknown |-> FALSE,
                 property |-> Utf8Prop(type, Ptr(mem, i + 2), length),
                 index |-> i + 2 + length, vbiLength |-> vbiLength,
                 reads |-> {i, i + 1},
                 views |-> {[off |-> i + 2, len |-> length]}]
      [] type \in BinaryTypes ->
            LET length == Read16(mem, i)
            IN  [ok |-> TRUE, unknown |-> FALSE,
                 property |-> BinaryProp(type, Ptr(mem, i + 2), length),
                 index |-> i + 2 + length, vbiLength |-> vbiLength,
                 reads |-> {i, i + 1},
                 views |-> {[off |-> i + 2, len |-> length]}]
      [] type = MQTT5_PROPERTY_USER_PROPERTY ->
            LET keyLength == Read16(mem, i)
                j == i + 2 + keyLength
                valueLength == Read16(mem, j)
            IN  [ok |-> TRUE, unknown |-> FALSE,
                 property |-> UserProp(Ptr(mem, i + 2), keyLength,
                                       Ptr(mem, j + 2), valueLength),
                 index |-> j + 2 + valueLength, vbiLength |-> vbiLength,
                 reads |-> {i, i + 1, j, j + 1},
                 views |-> {[off |-> i + 2, len |-> keyLength],
                            [off |-> j + 2, len |-> valueLength]}]
      [] type = MQTT5_PROPERTY_SUBSCRIPTION_IDENTIFIER ->
            LET d == MQTT5_DecodeVariableByteInteger(Ptr(mem, i), size - i)
            IN  [ok |-> d.bytesRead # 0, unknown |-> FALSE,
                 property |-> FourByteProp(type, d.pValue),
                 index |-> i + d.bytesRead, vbiLength |-> d.bytesRead,
                 reads |-> {i + k : k \in 0..(d.touched - 1)}, views |-> {}]
      [] OTHER -> UnknownIdentifier(i, vbiLength)

DeserializeStep_KeepCursor(mem, size, fault, s) ==
    LET type == MemAt(mem, s.index)
        r == DeserializeValue(mem, size, type, s.index + 1, s.vbiLength)
        added == MQTT5_AddProperty(s.P, r.property)
        stored == r.ok /\ added.status = MQTTSuccess
    IN  [status |-> IF fault /\ (\E k \in r.reads : k >= size) THEN Trap
                    ELSE IF r.ok THEN added.status ELSE MQTTBadParameter,
         index |-> s.index,
         vbiLength |-> r.vbiLength,
         propertiesLength |-> s.propertiesLength,
         P |-> IF r.ok THEN added.P ELSE s.P,
         reads |-> s.reads \cup {s.index} \cup r.reads,
         views |-> IF stored THEN s.views \cup r.views ELSE s.views,
         iterations |-> s.iterations + 1,
         unknownAt |-> IF r.unknown THEN s.index ELSE s.unknownAt,
         cursors |-> Append(s.cursors, s.index)]

\* One iteration of the while loop.  s is the state of the call: status,
\* index, vbiLength, propertiesLength, the collection P, and the ghosts
\* reads (buffer indices read), views (borrowed views stored), iterations,
\* unknownAt (index of an unrecognised identifier byte, else -1) and
\* cursors (the value of index at the start of each iteration, in order).
\* fault says whether a read past the end of the buffer faults.
DeserializeStep(mem, size, fault, s) ==
    LET type == MemAt(mem, s.index)
        r == DeserializeValue(mem, size, type, s.index + 1, s.vbiLength)
        added == MQTT5_AddProperty(s.P, r.property)
        stored == r.ok /\ added.status = MQTTSuccess
    IN  IF fault /\ (\E k \in r.reads : k >= size)
        THEN [s EXCEPT !.status = Trap,
                       !.reads = s.reads \cup {s.index} \cup r.reads,
                       !.iterations = s.iterations + 1,
                       !.cursors = Append(s.cursors, s.index)]
        ELSE [status |-> IF r.ok THEN added.status ELSE MQTTBadParameter,
              index |-> r.index,
              vbiLength |-> r.vbiLength,
              propertiesLength |-> s.propertiesLength,
              P |-> IF r.ok THEN added.P ELSE s.P,
              reads |-> s.reads \cup {s.index} \cup r.reads,
              views |-> IF stored THEN s.views \cup r.views ELSE s.views,
              iterations |-> s.iterations + 1,
              unknownAt |-> IF r.unknown THEN s.index ELSE s.unknownAt,
              cursors |-> Append(s.cursors, s.index)]

RECURSIVE DeserializeLoop(_, _, _, _)
DeserializeLoop(mem, size, fault, s) ==
    IF (s.index < size) /\ (s.index < s.vbiLength + s.propertiesLength)
         /\ (s.status = MQTTSuccess)
    THEN DeserializeLoop(mem, size, fault, DeserializeStep(mem, size, fault, s))
    ELSE s

\* The call on collection P, buffer pBuffer (a region) and size.
MQTT5_DeserializeProperties(P, pBuffer, size, fault) ==
    LET d == MQTT5_DecodeVariableByteInteger(Ptr(pBuffer, 0), size)
        s0 == [status |-> IF d.bytesRead = 0 THEN MQTTBadParameter
                          ELSE MQTTSuccess,
               index |-> d.bytesRead,
               vbiLength |-> d.bytesRead,
               propertiesLength |-> IF d.bytesRead = 0 THEN 0
                                    ELSE U32Value(d.pValue),
               P |-> P,
               reads |-> {k \in 0..(d.touched - 1) : TRUE},
               views |-> {},
               iterations |-> 0,
               unknownAt |-> -1,
               cursors |-> << >>]
    IN  IF d.bytesRead = 0 THEN s0 ELSE DeserializeLoop(pBuffer, size, fault, s0)

----------------------------------------------------------------------------
(* Spec: a client working on one collection through the API.               *)

\* "k", "v", "w", "a" as bytes
KeyK == Str(<<107>>)
ValV == Str(<<118>>)
ValW == Str(<<119>>)

\* A property whose type is no MQTT5PropertyType_t value
UnknownTypeProp == ByteProp(4, 0)

\* The properties the client appends
LifeProps ==
    { ByteProp(MQTT5_PROPERTY_PAYLOAD_FORMAT_INDICATOR, 1),
      Utf8Prop(MQTT5_PROPERTY_CONTENT_TYPE, Str(<<97>>), 1),
      UserProp(KeyK, 1, ValV, 1),
      UserProp(KeyK, 1, ValW, 1),
      FourByteProp(MQTT5_PROPERTY_SUBSCRIPTION_IDENTIFIER, U32(1)),
      UnknownTypeProp }

\* The types the client looks up
LifeTypes ==
    { MQTT5_PROPERTY_PAYLOAD_FORMAT_INDICATOR,
      MQTT5_PROPERTY_USER_PROPERTY,
      MQTT5_PROPERTY_SUBSCRIPTION_IDENTIFIER,
      MQTT5_PROPERTY_REASON_STRING }

\* The property blocks the client receives: well-formed ones, one with more
\* records than the collection holds, one with an unknown identifier, one
\* declaring more than it has, one cut inside a value, one bad prefix.
LifeBlocks ==
    { <<2, 1, 0>>,
      <<4, 3, 0, 1, 97>>,
      <<8, 1, 0, 36, 1, 37, 1, 40, 1>>,
      <<3, 1, 0, 0>>,
      <<5, 1, 0>>,
      <<1, 1>>,
      <<128>> }

Init ==
    /\ \E capacity \in 1..MaxCapacity : pProperties = EmptyProperties(capacity)
    /\ op = "MQTT5_InitProperties"
    /\ status = MQTTSuccess
    /\ args = [kind |-> "none"]
    /\ out = [kind |-> "none"]

Running == status # Trap

InitProperties ==
    /\ Running
    /\ \E capacity \in 0..MaxCapacity :
          LET r == MQTT5_InitProperties(pProperties, capacity)
          IN  /\ pProperties' = r.P
              /\ status' = r.status
              /\ args' = [kind |-> "init", capacity |-> capacity]
    /\ op' = "MQTT5_InitProperties"
    /\ out' = [kind |-> "none"]

AddProperty ==
    /\ Running
    /\ \E pProperty \in LifeProps :
          LET r == MQTT5_AddProperty(pProperties, pProperty)
          IN  /\ pProperties' = r.P
              /\ status' = r.status
              /\ args' = [kind |-> "add", pProperty |-> pProperty]
    /\ op' = "MQTT5_AddProperty"
    /\ out' = [kind |-> "none"]

GetProperty ==
    /\ Running
    /\ \E type \in LifeTypes :
          LET r == MQTT5_GetProperty(pProperties, type)
          IN  /\ status' = r.status
              /\ args' = [kind |-> "get", type |-> type]
              /\ out' = [kind |-> "get", pProperty |-> r.pProperty]
    /\ op' = "MQTT5_GetProperty"
    /\ UNCHANGED pProperties

GetPropertiesSize ==
    /\ Running
    /\ op' = "MQTT5_GetPropertiesSize"
    /\ out' = [kind |-> "size", totalSize |-> MQTT5_GetPropertiesSize(pProperties)]
    /\ args' = [kind |-> "none"]
    /\ UNCHANGED <<pProperties, status>>

SerializeApply(P) ==
    LET r == MQTT5_SerializeProperties(P)
    IN  /\ op' = "MQTT5_SerializeProperties"
        /\ status' = r.status
        /\ out' = [kind |-> "serialize",
                   pBuffer |-> r.pBuffer, pSize |-> r.pSize,
                   propertiesLength |-> r.propertiesLength,
                   vbiLength |-> r.vbiLength]

SerializeProperties ==
    /\ Running
    /\ SerializeApply(pProperties)
    /\ args' = [kind |-> "none"]
    /\ UNCHANGED pProperties

\* The call on the collection; out.before is the collection it was given and
\* out.prefix what the length prefix decodes to.
DeserializeApply(pBuffer, size, fault) ==
    LET s == MQTT5_DeserializeProperties(pProperties, pBuffer, size, fault)
    IN  /\ op' = "MQTT5_DeserializeProperties"
        /\ status' = s.status
        /\ pProperties' = s.P
        /\ out' = [kind |-> "deserialize",
                   before |-> pProperties,
                   pBuffer |-> pBuffer, size |-> size,
                   index |-> s.index,
                   prefix |-> MQTT5_DecodeVariableByteInteger(Ptr(pBuffer, 0), size),
                   reads |-> s.reads, views |-> s.views,
                   iterations |-> s.iterations, unknownAt |-> s.unknownAt,
                   cursors |-> s.cursors]

DeserializeProperties ==
    /\ Running
    /\ \E data \in LifeBlocks, beyond \in Beyonds, fault \in BOOLEAN :
          DeserializeApply(Region(data, beyond), Len(data), fault)
    /\ args' = [kind |-> "block"]

\* The client reads back the block it has just serialized
DeserializeSerialized ==
    /\ Running
    /\ op = "MQTT5_SerializeProperties"
    /\ status = MQTTSuccess
    /\ \E beyond \in Beyonds, fault \in BOOLEAN :
          DeserializeApply(Region(out.pBuffer, beyond), out.pSize, fault)
    /\ args' = [kind |-> "loopback"]

Next ==
    \/ InitProperties
    \/ AddProperty
    \/ GetProperty
    \/ GetPropertiesSize
    \/ SerializeProperties
    \/ DeserializeProperties
    \/ DeserializeSerialized

Spec == Init /\ [][Next]_vars

\* Every entry has a recognised type, and a subscription identifier is a
\* value four VBI bytes hold.
WireValid(P) ==
    \A i \in 0..(P.count - 1) :
        /\ P.pProperties[i].type \in KnownTypes
        /\ P.pProperties[i].type = MQTT5_PROPERTY_SUBSCRIPTION_IDENTIFIER
              => U32Leq(P.pProperties[i].value.fourByteInteger, VbiMax)

\* C6: appending to a full collection returns MQTTNoMemory and leaves count,
\* capacity and every stored entry unchanged.
C6_AppendOnFull ==
    [][ (op' = "MQTT5_AddProperty"
           /\ pProperties.count = pProperties.capacity)
        => (status' = MQTTNoMemory /\ pProperties' = pProperties) ]_vars

\* an append was refused on a full collection
C6_Witness ==
    /\ op = "MQTT5_AddProperty"
    /\ status = MQTTNoMemory
    /\ pProperties.count = pProperties.capacity
    /\ pProperties.count = MaxCapacity

\* C7: count <= capacity in every state reachable after a successful
\* MQTT5_InitProperties, and no entry is written at an index >= capacity.
C7_CapacityInvariant ==
    /\ pProperties.count <= pProperties.capacity
    /\ ~pProperties.overrun
    /\ DOMAIN pProperties.pProperties = 0..(pProperties.capacity - 1)

\* a deserialization filled the collection and was refused the next entry
C7_Witness ==
    /\ op = "MQTT5_DeserializeProperties"
    /\ status = MQTTNoMemory
    /\ pProperties.count = pProperties.capacity
    /\ out.before.count < pProperties.count

\* C8: the length the serializer encodes in the prefix equals the number of
\* bytes it writes after the prefix.
C8_PrefixAgreesWithBody ==
    (op = "MQTT5_SerializeProperties" /\ WireValid(pProperties))
    => (out.propertiesLength = out.pSize - out.vbiLength)

\* The entries Q holds at the indices P.count .. Q.count - 1, in order
Appended(P, Q) ==
    [k \in 1..(Q.count - P.count) |-> Q.pProperties[P.count + k - 1]]

\* The records of a block in wire order: what the call just made stores in
\* an empty collection with room for one entry per byte of the block
RecordsOf(pBuffer, size, fault) ==
    LET s == MQTT5_DeserializeProperties(EmptyProperties(size + 1),
                                         pBuffer, size, fault)
    IN  Appended(EmptyProperties(size + 1), s.P)

IsPrefix(a, b) == Len(a) <= Len(b) /\ a = SubSeq(b, 1, Len(a))

\* C11: no call other than MQTT5_InitProperties changes capacity, decreases
\* count or changes an entry below count; a successful MQTT5_AddProperty puts
\* its argument at index count and adds one to count, a refused one and the
\* three reading calls change nothing, and MQTT5_DeserializeProperties puts
\* the records of the block after the stored entries, in wire order.  So the
\* entries 0..count-1 are the successful appends in order, duplicates kept.
C11_InsertionOrder ==
    [][ (op' # "MQTT5_InitProperties") =>
          /\ pProperties'.capacity = pProperties.capacity
          /\ pProperties'.count >= pProperties.count
          /\ \A i \in 0..(pProperties.count - 1) :
                pProperties'.pProperties[i] = pProperties.pProperties[i]
          /\ (op' = "MQTT5_AddProperty" /\ status' = MQTTSuccess)
                => Appended(pProperties, pProperties') = << args'.pProperty >>
          /\ (op' = "MQTT5_AddProperty" /\ status' # MQTTSuccess)
                => pProperties' = pProperties
          /\ (op' \in { "MQTT5_GetProperty", "MQTT5_GetPropertiesSize",
                        "MQTT5_SerializeProperties" })
                => pProperties' = pProperties
          /\ (op' = "MQTT5_DeserializeProperties")
                => IsPrefix(Appended(pProperties, pProperties'),
                            RecordsOf(out'.pBuffer, out'.size,
                                      status' = Trap)) ]_vars

\* a second user property with the same key was appended after the first,
\* and both are stored in the order of the appends
C11_Witness ==
    /\ op = "MQTT5_AddProperty"
    /\ status = MQTTSuccess
    /\ pProperties.count = 2
    /\ pProperties.pProperties[0] = UserProp(KeyK, 1, ValV, 1)
    /\ pProperties.pProperties[1] = UserProp(KeyK, 1, ValW, 1)
    /\ args.pProperty = UserProp(KeyK, 1, ValW, 1)

\* The indices below count whose entry has the type
Matches(P, type) ==
    { i \in 0..(P.count - 1) : P.pProperties[i].type = type }

\* C12: MQTT5_GetProperty returns MQTTSuccess and a copy of the entry at the
\* lowest index whose type is the requested one, MQTTBadParameter when no
\* entry has that type, and leaves the collection unchanged in both cases.
C12_FindFirst ==
    [][ (op' = "MQTT5_GetProperty") =>
          LET found == Matches(pProperties, args'.type)
          IN  /\ pProperties' = pProperties
              /\ (found = {}) => (status' = MQTTBadParameter)
              /\ (found # {}) =>
                    /\ status' = MQTTSuccess
                    /\ \E i \in found :
                          /\ \A j \in found : i <= j
                          /\ out'.pProperty = pProperties.pProperties[i] ]_vars

\* a lookup of USER_PROPERTY in a collection holding two of them with
\* different values returned the one stored first
C12_Witness ==
    /\ op = "MQTT5_GetProperty"
    /\ status = MQTTSuccess
    /\ args.type = MQTT5_PROPERTY_USER_PROPERTY
    /\ Matches(pProperties, MQTT5_PROPERTY_USER_PROPERTY) = {0, 1}
    /\ pProperties.pProperties[0] # pProperties.pProperties[1]
    /\ out.pProperty = pProperties.pProperties[0]

----------------------------------------------------------------------------
(* SpecRT: a sender's collection is serialized and the bytes written are   *)
(* deserialized into the receiver's empty collection.                      *)

LongString == Str([k \in 1..LongLen |-> 97])

\* Validly constructed properties of every value shape
RtProps ==
    { ByteProp(MQTT5_PROPERTY_PAYLOAD_FORMAT_INDICATOR, 1),
      ByteProp(MQTT5_PROPERTY_MAXIMUM_QOS, 255),
      TwoByteProp(MQTT5_PROPERTY_TOPIC_ALIAS, 258),
      FourByteProp(MQTT5_PROPERTY_SESSION_EXPIRY_INTERVAL, U32(3600)),
      FourByteProp(MQTT5_PROPERTY_MAXIMUM_PACKET_SIZE, [hi |-> 65535, lo |-> 65534]),
      Utf8Prop(MQTT5_PROPERTY_CONTENT_TYPE, Str(<< >>), 0),
      Utf8Prop(MQTT5_PROPERTY_REASON_STRING, Str(<<97, 98>>), 2),
      Utf8Prop(MQTT5_PROPERTY_RESPONSE_TOPIC, LongString, LongLen),
      BinaryProp(MQTT5_PROPERTY_CORRELATION_DATA, Str(<<0, 255, 38>>), 3),
      UserProp(KeyK, 1, ValV, 1),
      UserProp(KeyK, 1, ValW, 1),
      FourByteProp(MQTT5_PROPERTY_SUBSCRIPTION_IDENTIFIER, U32(1)),
      FourByteProp(MQTT5_PROPERTY_SUBSCRIPTION_IDENTIFIER, U32(128)),
      FourByteProp(MQTT5_PROPERTY_SUBSCRIPTION_IDENTIFIER, U32(16384)),
      FourByteProp(MQTT5_PROPERTY_SUBSCRIPTION_IDENTIFIER, VbiMax) }

\* The collection a sender has after appending the properties of seq in order
RECURSIVE Filled(_, _)
Filled(P, seq) ==
    IF seq = << >> THEN P
    ELSE Filled(MQTT5_AddProperty(P, Head(seq)).P, Tail(seq))

RtSenders ==
    UNION { { Filled(EmptyProperties(IF n = 0 THEN 1 ELSE n), seq) :
                 seq \in [1..n -> RtProps] } : n \in 0..MaxCount }

InitRT ==
    /\ \E capacity \in 1..MaxCount : pProperties = EmptyProperties(capacity)
    /\ op = "start"
    /\ status = MQTTSuccess
    /\ args \in { [kind |-> "sender", pProperties |-> C] : C \in RtSenders }
    /\ out = [kind |-> "none"]

SerializeSender ==
    /\ op = "start"
    /\ args.kind = "sender"
    /\ SerializeApply(args.pProperties)
    /\ UNCHANGED <<pProperties, args>>

DeserializeWritten ==
    /\ op = "MQTT5_SerializeProperties"
    /\ status = MQTTSuccess
    /\ \E beyond \in Beyonds, fault \in BOOLEAN :
          DeserializeApply(Region(out.pBuffer, beyond), out.pSize, fault)
    /\ UNCHANGED args

NextRT == SerializeSender \/ DeserializeWritten

SpecRT == InitRT /\ [][NextRT]_vars

\* Same type and same value; borrowed bytes are compared by content.
SameProperty(p, q) ==
    /\ p.type = q.type
    /\ CASE p.type \in Utf8Types ->
              /\ p.value.utf8String.length = q.value.utf8String.length
              /\ Content(p.value.utf8String.pString, p.value.utf8String.length)
                   = Content(q.value.utf8String.pString, q.value.utf8String.length)
         [] p.type \in BinaryTypes ->
              /\ p.value.binaryData.length = q.value.binaryData.length
              /\ Content(p.value.binaryData.pData, p.value.binaryData.length)
                   = Content(q.value.binaryData.pData, q.value.binaryData.length)
         [] p.type = MQTT5_PROPERTY_USER_PROPERTY ->
              /\ p.value.userProperty.keyLength = q.value.userProperty.keyLength
              /\ p.value.userProperty.valueLength = q.value.userProperty.valueLength
              /\ Content(p.value.userProperty.pKey, p.value.userProperty.keyLength)
                   = Content(q.value.userProperty.pKey, q.value.userProperty.keyLength)
              /\ Content(p.value.userProperty.pValue, p.value.userProperty.valueLength)
                   = Content(q.value.userProperty.pValue, q.value.userProperty.valueLength)
         [] OTHER -> p.value = q.value

SameEntries(P, Q) ==
    /\ P.count = Q.count
    /\ \A i \in 0..(P.count - 1) : SameProperty(P.pProperties[i], Q.pProperties[i])

\* C1: round trip: deserializing the bytes serialized from a validly
\* constructed collection into an empty collection of sufficient capacity
\* succeeds and yields the same count and the same (type, value) entries in
\* the same order.
C1_RoundTrip ==
    (op = "MQTT5_DeserializeProperties" /\ args.kind = "sender"
        /\ out.before.capacity >= args.pProperties.count)
    => (status = MQTTSuccess /\ SameEntries(pProperties, args.pProperties))

\* two user properties with the same key came back as two entries, in order
C1_Witness ==
    /\ op = "MQTT5_DeserializeProperties"
    /\ args.kind = "sender"
    /\ status = MQTTSuccess
    /\ pProperties.count = 2
    /\ args.pProperties.pProperties[0] = UserProp(KeyK, 1, ValW, 1)
    /\ args.pProperties.pProperties[1] = UserProp(KeyK, 1, ValV, 1)
    /\ SameEntries(pProperties, args.pProperties)

\* The digits of n in base 256, most significant first, in `width` bytes
Digits(n, width) == [k \in 1..width |-> (n \div (256 ^ (width - k))) % 256]

\* A length-prefixed field: 2-byte big-endian length, then the raw bytes
WireField(p, length) == Digits(length, 2) \o Content(p, length)

\* The record of one property on the wire, by the member of value the
\* property was constructed with
WireRecord(p) ==
    << p.type >> \o
    CASE p.type = MQTT5_PROPERTY_SUBSCRIPTION_IDENTIFIER ->
            encodeVariableByteInteger(p.value.fourByteInteger)
      [] "byte" \in DOMAIN p.value -> << p.value.byte >>
      [] "twoByteInteger" \in DOMAIN p.value ->
            Digits(p.value.twoByteInteger, 2)
      [] "fourByteInteger" \in DOMAIN p.value ->
            Digits(p.value.fourByteInteger.hi, 2)
              \o Digits(p.value.fourByteInteger.lo, 2)
      [] "utf8String" \in DOMAIN p.value ->
            WireField(p.value.utf8String.pString, p.value.utf8String.length)
      [] "binaryData" \in DOMAIN p.value ->
            WireField(p.value.binaryData.pData, p.value.binaryData.length)
      [] "userProperty" \in DOMAIN p.value ->
            WireField(p.value.userProperty.pKey,
                      p.value.userProperty.keyLength)
              \o WireField(p.value.userProperty.pValue,
                           p.value.userProperty.valueLength)

\* The records of the entries i .. count - 1, concatenated in that order
RECURSIVE WireBody(_, _)
WireBody(P, i) ==
    IF i < P.count
    THEN WireRecord(P.pProperties[i]) \o WireBody(P, i + 1)
    ELSE << >>

\* C13: for a collection of recognised property types the serializer
\* succeeds and the bytes it writes after the length prefix are, in insertion
\* order, each property's identifier byte followed by its value: one byte,
\* two or four bytes big-endian, or a 2-byte big-endian length and the raw
\* bytes for each string, binary and user-property key and value field (a
\* subscription identifier, of at most 268435455, as the encoder's bytes).
C13_WireLayout ==
    (op = "MQTT5_SerializeProperties" /\ args.kind = "sender"
        /\ WireValid(args.pProperties))
    => /\ status = MQTTSuccess
       /\ out.pSize = Len(out.pBuffer)
       /\ SubSeq(out.pBuffer, out.vbiLength + 1, out.pSize)
             = WireBody(args.pProperties, 0)

\* SESSION_EXPIRY_INTERVAL = 3600 was serialized as 05 11 00 00 0E 10
C13_Witness ==
    /\ op = "MQTT5_SerializeProperties"
    /\ args.kind = "sender"
    /\ args.pProperties.count = 1
    /\ args.pProperties.pProperties[0] =
          FourByteProp(MQTT5_PROPERTY_SESSION_EXPIRY_INTERVAL, U32(3600))
    /\ out.pBuffer = << 5, 17, 0, 0, 14, 16 >>

----------------------------------------------------------------------------
(* SpecDeser: the deserializer on drawn property blocks: every byte string *)
(* of up to MaxBufLen bytes over BlockBytes, and blocks composed of a      *)
(* declared length and up to MaxRecords records, whole or cut short.       *)

BlockBytes ==
    { 0, 1,
      MQTT5_PROPERTY_CONTENT_TYPE,
      MQTT5_PROPERTY_SUBSCRIPTION_IDENTIFIER,
      MQTT5_PROPERTY_USER_PROPERTY,
      128 }

ShortBlocks == UNION { [1..n -> BlockBytes] : n \in 0..MaxBufLen }

\* Records as they appear on the wire: one of every value shape, an
\* over-long subscription identifier, unknown identifiers, a string that
\* declares more bytes than follow, a four-byte integer cut short.
Fragments ==
    { <<1, 0>>,
      <<19, 1, 2>>,
      <<17, 0, 0, 14, 16>>,
      <<3, 0, 1, 97>>,
      <<3, 0, 0>>,
      <<9, 0, 2, 7, 7>>,
      <<38, 0, 1, 107, 0, 1, 118>>,
      <<11, 1>>,
      <<11, 128, 1>>,
      <<11, 128, 128, 128, 128, 1>>,
      <<0>>,
      <<4, 9>>,
      <<3, 0, 9, 97>>,
      <<17, 0>> }

RECURSIVE Concat(_)
Concat(seqs) == IF seqs = << >> THEN << >> ELSE Head(seqs) \o Concat(Tail(seqs))

Bodies == UNION { { Concat(fs) : fs \in [1..n -> Fragments] } : n \in 0..MaxRecords }

\* The body behind a one-byte prefix declaring its length, one less or one
\* more, whole or without its last byte.
ComposedBlocks ==
    UNION { { SubSeq(<<d>> \o body, 1, 1 + Len(body) - cut) :
                 d \in { x \in {Len(body) - 1, Len(body), Len(body) + 1} : x >= 0 },
                 cut \in { c \in {0, 1} : c <= Len(body) } } :
            body \in Bodies }

InitDeser ==
    /\ \E capacity \in 1..MaxCapacity : pProperties = EmptyProperties(capacity)
    /\ op = "start"
    /\ status = MQTTSuccess
    /\ args \in { [kind |-> "block", data |-> data] :
                     data \in ShortBlocks \cup ComposedBlocks }
    /\ out = [kind |-> "none"]

DeserializeBlock ==
    /\ op = "start"
    /\ args.kind = "block"
    /\ \E beyond \in Beyonds, fault \in BOOLEAN :
          DeserializeApply(Region(args.data, beyond), Len(args.data), fault)
    /\ UNCHANGED args

NextDeser == DeserializeBlock

SpecDeser == InitDeser /\ [][NextDeser]_vars

\* The properties length the prefix of the block declares
Declared == U32Value(out.prefix.pValue)

\* C2: every buffer index the deserializer reads is below size, and every
\* borrowed view it stores lies inside [0, size).
C2_NoOutOfBoundsRead ==
    (op = "MQTT5_DeserializeProperties")
    => /\ \A k \in out.reads : k < out.size
       /\ \A v \in out.views : v.off + v.len <= out.size

\* C3: when the prefix, or a length inside a record, declares more bytes
\* than remain in the buffer, the deserializer does not return success.
C3_TruncatedRejected ==
    (/\ op = "MQTT5_DeserializeProperties"
     /\ out.prefix.bytesRead # 0
     /\ \/ Declared > out.size - out.prefix.bytesRead
        \/ \E v \in out.views : v.off + v.len > out.size)
    => status # MQTTSuccess

\* C9: on success the parse cursor stands at vbi_width + propertiesLength.
C9_ExactConsumption ==
    (op = "MQTT5_DeserializeProperties" /\ status = MQTTSuccess)
    => out.index = out.prefix.bytesRead + Declared

----------------------------------------------------------------------------
(* SpecVBI: the Variable Byte Integer codec on drawn inputs.  A run draws  *)
(* either a uint32_t to encode (and then decodes what was written) or a    *)
(* raw buffer and a bufferSize to decode.                                  *)

VbiBytes == {0, 127, 128, 255}

VbiBuffers == UNION { [1..n -> VbiBytes] : n \in 0..MaxVbiBuf }

VbiValues ==
    { U32(0), U32(1), U32(127), U32(128), U32(300), U32(16383), U32(16384),
      U32(2097151), U32(2097152), U32(123456789), VbiMax,
      U32(268435456), [hi |-> 32768, lo |-> 0], [hi |-> 65535, lo |-> 65535] }

InitVBI ==
    /\ pProperties = EmptyProperties(1)
    /\ op = "start"
    /\ status = MQTTSuccess
    /\ args \in { [kind |-> "value", value |-> v] : v \in VbiValues }
          \cup UNION { { [kind |-> "buffer", pBuffer |-> Region(b, <<0>>),
                             bufferSize |-> n] : n \in 0..Len(b) } :
                        b \in VbiBuffers }
    /\ out = [bytesWritten |-> 0]

EncodeVBI ==
    /\ op = "start"
    /\ args.kind = "value"
    /\ LET written == encodeVariableByteInteger(args.value)
       IN  /\ op' = "encodeVariableByteInteger"
           /\ out' = [pBuffer |-> written, bytesWritten |-> Len(written)]
    /\ UNCHANGED <<pProperties, status, args>>

DecodeApply(region, bufferSize, written) ==
    LET d == MQTT5_DecodeVariableByteInteger(Ptr(region, 0), bufferSize)
    IN  /\ op' = "MQTT5_DecodeVariableByteInteger"
        /\ out' = [pBuffer |-> region.data, bufferSize |-> bufferSize,
                   bytesRead |-> d.bytesRead, pValue |-> d.pValue,
                   touched |-> d.touched, bytesWritten |-> written]
        /\ UNCHANGED <<pProperties, status, args>>

\* decode what the encoder wrote, bufferSize being the bytes written
DecodeEncoded ==
    /\ op = "encodeVariableByteInteger"
    /\ \E y \in Beyonds :
          DecodeApply(Region(out.pBuffer, y), out.bytesWritten, out.bytesWritten)

DecodeRaw ==
    /\ op = "start"
    /\ args.kind = "buffer"
    /\ DecodeApply(args.pBuffer, args.bufferSize, 0)

NextVBI == EncodeVBI \/ DecodeEncoded \/ DecodeRaw

SpecVBI == InitVBI /\ [][NextVBI]_vars

\* C4: VBI round trip: decoding the bytes the encoder wrote for a value in
\* [0, 268435455], with bufferSize the number of bytes written, returns that
\* number of bytes and the value.
C4_VbiRoundTrip ==
    (op = "MQTT5_DecodeVariableByteInteger" /\ args.kind = "value"
        /\ U32Leq(args.value, VbiMax))
    => (out.bytesRead = out.bytesWritten /\ out.pValue = args.value)

\* a four-byte encoding was decoded back
C4_Witness ==
    /\ op = "MQTT5_DecodeVariableByteInteger"
    /\ args.kind = "value"
    /\ args.value = VbiMax
    /\ out.bytesRead = 4
    /\ out.pValue = VbiMax

ContinuationSet(b) == b >= 128

\* the decoder ran out of buffer before a byte without the continuation bit
Exhausted(buf, bufferSize) ==
    /\ bufferSize <= 4
    /\ \A k \in 1..bufferSize : ContinuationSet(buf[k])

\* the first four bytes all have the continuation bit
FourContinuations(buf, bufferSize) ==
    /\ bufferSize >= 4
    /\ \A k \in 1..4 : ContinuationSet(buf[k])

\* C5: the decoder returns 0 when the buffer is exhausted before a
\* terminating byte or when the first four bytes all continue; a non-zero
\* result n has 1 <= n <= 4, n <= bufferSize, byte n-1 terminating and the
\* bytes before it continuing.
C5_VbiDecodeRejects ==
    (op = "MQTT5_DecodeVariableByteInteger")
    => /\ (Exhausted(out.pBuffer, out.bufferSize)
             \/ FourContinuations(out.pBuffer, out.bufferSize))
          => out.bytesRead = 0
       /\ out.bytesRead # 0
          => /\ 1 <= out.bytesRead /\ out.bytesRead <= 4
             /\ out.bytesRead <= out.bufferSize
             /\ ~ContinuationSet(out.pBuffer[out.bytesRead])
             /\ \A k \in 1..(out.bytesRead - 1) : ContinuationSet(out.pBuffer[k])

\* four continuation bytes and a fifth, terminating byte were rejected
C5_Witness ==
    /\ op = "MQTT5_DecodeVariableByteInteger"
    /\ args.kind = "buffer"
    /\ out.bufferSize = 5
    /\ FourContinuations(out.pBuffer, out.bufferSize)
    /\ ~ContinuationSet(out.pBuffer[5])
    /\ out.bytesRead = 0

\* C14: for every uint32_t value the encoder emits between 1 and 4 bytes, the
\* continuation bit set on every byte but the last; it never writes a fifth
\* byte.
C14_EncoderWidth ==
    (op = "encodeVariableByteInteger")
    => /\ out.bytesWritten \in 1..4
       /\ \A k \in 1..out.bytesWritten :
             ContinuationSet(out.pBuffer[k]) <=> (k < out.bytesWritten)

====
